---- MODULE Spec2Model ----
(***************************************************************************)
(* gnss_share: a daemon that shares one serial GNSS receiver between the   *)
(* clients of a unix socket (main.py) and the STM assistance-data driver   *)
(* it uses (stm_agps.py, stm_agps_serial.py).                              *)
(*                                                                         *)
(* Five specifications share this module:                                  *)
(*   Spec        GnssShare.run: the trio nursery, its tasks, the clients,  *)
(*               the device and the signals, one action per segment of     *)
(*               code between two checkpoints (await) of a task.           *)
(*   SpecLoopFair  the same daemon in service (no signal, no fault), its   *)
(*               lifecycle loop taking its steps.                          *)
(*   SpecFramer  STM_AGPS.readline / STM_AGPS_SERIAL.readline over a byte  *)
(*               stream cut into arbitrary chunks.                         *)
(*   SpecDriver  STM_AGPS._serial_write_cmd and _store_to_file against a   *)
(*               device that answers line by line.                         *)
(*   SpecAgps    STM_AGPS.load and STM_AGPS.store: the exchanges of a call *)
(*               and what they do to the assistance files.                 *)
(* Byte strings are sequences of one-character strings.                    *)
(***************************************************************************)
EXTENDS Integers, Sequences, FiniteSets, TLC

VARIABLES
    \* ---- GnssShare (main.py)
    run_pc,            \* GnssShare.run: "enter", "nursery", "store", "returned", "raised", "killed"
    body_pc,           \* the nursery body: "start", "await_load", "aexit", "done"
    cancelled,         \* the nursery's cancel scope has been cancelled
    excs,              \* the exceptions the nursery has collected from its tasks
    sock_pc,           \* _start_sock_server; "collided": it raised on an existing file
    load_pc,           \* load() started with nursery.start
    sig_pc,            \* _signal_receiver
    sig_pending,       \* a signal waits in the installed receiver
    loop_pc,           \* _run_loop
    store_pc,          \* the final store()
    open_connections,  \* GnssShare._open_connections
    active_driver,     \* GnssShare._active_driver: "None", or "set" to a driver
    location,          \* GnssShare._location
    line,              \* the local `line` of _run_loop
    buf,               \* _active_driver._buf
    conn_pc,           \* per client: its _handle_socket_connection task
    conn_loc,          \* per client: the local `location` handed to send_all
    dev_open,          \* open handles on the device path, per opener
    dev_chunk,         \* what the device's next receive_some returns (<<>>: nothing yet)
    dev_tail,          \* the rest of the record the device is in the middle of
    \* ---- readline (SpecFramer)
    f_variant, f_stream, f_rest, f_buf, f_pc, f_lines,
    \* ---- command exchange and dump (SpecDriver)
    d_op, d_pc, d_written, d_reads, d_line, d_result, d_file, d_first_match,
    d_lastraw, d_shape, d_data,
    \* ---- STM_AGPS.load and STM_AGPS.store (SpecAgps)
    a_call,            \* "load" or "store"
    a_pc,              \* where the call is: the step, or "returned", "raised"
    a_phase,           \* within an exchange: "write", "poll", "collect"; else "none"
    a_idx,             \* lines of the file in hand already issued by _load_from_file
    a_dir,             \* the assistance directory: almanac.txt and ephemeris.txt
    a_before,          \* the directory as it was when the call began
    a_sent,            \* what was written to the transport, one entry per command
    a_acks             \* the result of each exchange so far

dvars == <<run_pc, body_pc, cancelled, excs, sock_pc, load_pc, sig_pc, sig_pending,
           loop_pc, store_pc, open_connections, active_driver, location, line, buf,
           conn_pc, conn_loc, dev_open, dev_chunk, dev_tail>>
fvars == <<f_variant, f_stream, f_rest, f_buf, f_pc, f_lines>>
pvars == <<d_op, d_pc, d_written, d_reads, d_line, d_result, d_file, d_first_match,
           d_lastraw, d_shape, d_data>>
avars == <<a_call, a_pc, a_phase, a_idx, a_dir, a_before, a_sent, a_acks>>
vars == <<dvars, fvars, pvars, avars>>

----------------------------------------------------------------------------
(* Bounds *)

\* number of clients that can be connected at once
MaxConns == 2
\* where the device may cut a record in two chunks
SplitAt == 3
\* longest byte stream fed to readline
MaxStream == 5
\* most data lines the device sends in one dump
MaxData == 2

Conns == 1..MaxConns

----------------------------------------------------------------------------
(* Byte-string helpers *)

NL == "\n"
Min(a, b) == IF a < b THEN a ELSE b

\* bytes.find(b): the first index (1-based) of byte b in s, 0 when absent
Find(s, b) ==
    IF \E i \in 1..Len(s) : s[i] = b
    THEN CHOOSE i \in 1..Len(s) : s[i] = b /\ \A j \in 1..(i-1) : s[j] # b
    ELSE 0

\* s[:n] and s[n:] of Python
Take(s, n) == SubSeq(s, 1, n)
Drop(s, n) == SubSeq(s, n + 1, Len(s))

\* sub in s, for byte strings
Contains(s, sub) ==
    \E i \in 0..(Len(s) - Len(sub)) : SubSeq(s, i + 1, i + Len(sub)) = sub

\* s.startswith(p)
StartsWith(s, p) == Len(p) <= Len(s) /\ Take(s, Len(p)) = p

----------------------------------------------------------------------------
(* STM_AGPS.readline and STM_AGPS_SERIAL.readline *)

\* receive_some(n): at most n of the bytes that are available
RecvSome(avail, n) == Take(avail, Min(n, Len(avail)))

\* the sizes the two transports ask receive_some for
RecvMaxFile == 40
RecvMaxSerial == 10

\* stm_agps.py 45-49: a line that is already in the retained buffer
ReadlineBuffered(b) ==
    LET idx == Find(b, NL) IN
    IF idx > 0
    THEN [hit |-> TRUE, line |-> Take(b, idx), buf |-> Drop(b, idx)]
    ELSE [hit |-> FALSE, line |-> <<>>, buf |-> b]

\* a readline that returns what the chunk holds and forgets what it had retained
ChunkForgetsBuffer(b, data) ==
    LET idx == Find(data, NL) IN
    IF idx > 0
    THEN [hit |-> TRUE, line |-> Take(data, idx), buf |-> Drop(data, idx)]
    ELSE [hit |-> FALSE, line |-> <<>>, buf |-> b \o data]

\* stm_agps.py 52-58: one chunk `data` read while the buffer holds b
ReadlineChunk(b, data) ==
    LET idx == Find(data, NL) IN
    IF idx > 0
    THEN [hit |-> TRUE, line |-> b \o Take(data, idx), buf |-> Drop(data, idx)]
    ELSE [hit |-> FALSE, line |-> <<>>, buf |-> b \o data]

\* stm_agps_serial.py 44-48
SerialReadlineBuffered(b) ==
    LET idx == Find(b, NL) IN
    IF idx > 0
    THEN [hit |-> TRUE, line |-> Take(b, idx), buf |-> Drop(b, idx)]
    ELSE [hit |-> FALSE, line |-> <<>>, buf |-> b]

\* stm_agps_serial.py 51-57
SerialReadlineChunk(b, data) ==
    LET idx == Find(data, NL) IN
    IF idx > 0
    THEN [hit |-> TRUE, line |-> b \o Take(data, idx), buf |-> Drop(data, idx)]
    ELSE [hit |-> FALSE, line |-> <<>>, buf |-> b \o data]

----------------------------------------------------------------------------
(* GnssShare: constants and pure parts *)

GAGGA == <<"$", "G", "A", "G", "G", "A">>
GBGGA == <<"$", "G", "B", "G", "G", "A">>
BDGGA == <<"$", "B", "D", "G", "G", "A">>
GLGGA == <<"$", "G", "L", "G", "G", "A">>
GNGGA == <<"$", "G", "N", "G", "G", "A">>
GPGGA == <<"$", "G", "P", "G", "G", "A">>

GNSS_PREFIXES == {GAGGA, GBGGA, BDGGA, GLGGA, GNGGA, GPGGA}

\* line.split(b',')[0]
FirstField(l) ==
    LET idx == Find(l, ",") IN IF idx > 0 THEN Take(l, idx - 1) ELSE l

\* a filter that tests how the line starts instead of its first field
PrefixByStartsWith(l) == \E p \in GNSS_PREFIXES : StartsWith(l, p)

\* main.py 141-142
PrefixAccepted(l) == FirstField(l) \in GNSS_PREFIXES

\* the records the device emits in this model
LineGP == GPGGA \o <<",", "1", NL>>
LineGN == GNGGA \o <<",", "2", NL>>
LineGSV == <<"$", "G", "P", "G", "S", "V", ",", "3", NL>>
LineBare == GPGGA \o <<NL>>
DevBursts == {LineGP, LineGN, LineGSV, LineBare, LineGSV \o LineGP}

\* a test that is true of the empty list too
HasClientsOrNone == Len(open_connections) >= 0

\* main.py 136
HasClients == Len(open_connections) > 0

\* a _get_location that does not look at _active_driver
LocationWhateverDriver == location

\* main.py 81-86
GetLocation == IF active_driver = "None" THEN <<>> ELSE location

\* a loop that sends whatever _get_location returned
SendAlways(loc) == TRUE

\* main.py 96
ShouldSend(loc) == loc # <<>>

\* a removal that removes nothing
RemoveNothing(s, c) == s

\* a test that never finds a driver to close
NothingToClose == FALSE

\* main.py 149: self._active_driver is not None
DriverToClose == active_driver # "None"

\* list.remove(conn)
Remove(s, c) == SelectSeq(s, LAMBDA x : x # c)

\* an except clause that never matches, and one that matches a SystemExit among others
ExceptNothing(e) == FALSE
ExceptSystemExitAmongOthers(e) == "SystemExit" \in e

\* main.py 192: except (SystemExit), for what the nursery raises: the one exception
\* of its tasks as it is, several of them combined in a MultiError
ExceptSystemExit(e) == e = {"SystemExit"}

\* load() started with start_soon: the body does not wait for it
LoadNotAwaited == TRUE

\* main.py 183: nursery.start(self.load) returns once load() has called started()
LoadStarted == load_pc = "done"

DaemonOnly == UNCHANGED <<fvars, pvars, avars>>

Running == run_pc = "nursery" /\ ~cancelled

\* a task raises: the nursery keeps the exception and cancels the other tasks
Raise(e) == excs' = excs \cup {e} /\ cancelled' = TRUE

----------------------------------------------------------------------------
(* GnssShare.run: the nursery body (main.py 174-190) *)

\* 176-183: enter the nursery, start_soon(_start_sock_server), await nursery.start(load)
RunEnter ==
    /\ run_pc = "enter"
    /\ run_pc' = "nursery"
    /\ sock_pc' = "spawned"
    /\ load_pc' = "spawned"
    /\ body_pc' = "await_load"
    /\ UNCHANGED <<cancelled, excs, sig_pc, sig_pending, loop_pc, store_pc,
                   open_connections, active_driver, location, line, buf, conn_pc,
                   conn_loc, dev_open, dev_chunk, dev_tail>>
    /\ DaemonOnly

\* 183-190: load() has started: start_soon(_signal_receiver), start_soon(_run_loop),
\* then wait in the nursery's __aexit__
BodyResume ==
    /\ Running
    /\ body_pc = "await_load"
    /\ LoadStarted
    /\ sig_pc' = "spawned"
    /\ loop_pc' = "spawned"
    /\ body_pc' = "aexit"
    /\ UNCHANGED <<run_pc, cancelled, excs, sock_pc, load_pc, sig_pending, store_pc,
                   open_connections, active_driver, location, line, buf, conn_pc,
                   conn_loc, dev_open, dev_chunk, dev_tail>>
    /\ DaemonOnly

\* the body is cancelled while it waits for load(), or the nursery is cancelled
\* while the body waits in __aexit__
BodyCancel ==
    /\ run_pc = "nursery"
    /\ cancelled
    /\ body_pc \in {"await_load", "aexit"}
    /\ body_pc' = "done"
    /\ UNCHANGED <<run_pc, cancelled, excs, sock_pc, load_pc, sig_pc, sig_pending,
                   loop_pc, store_pc, open_connections, active_driver, location, line,
                   buf, conn_pc, conn_loc, dev_open, dev_chunk, dev_tail>>
    /\ DaemonOnly

----------------------------------------------------------------------------
(* GnssShare.load as the task nursery.start runs (main.py 63-72) *)

\* 67: the driver is constructed and opened
LoadOpen ==
    /\ Running
    /\ load_pc = "spawned"
    /\ load_pc' = "loading"
    /\ dev_open' = [dev_open EXCEPT !.load = @ + 1]
    /\ UNCHANGED <<run_pc, body_pc, cancelled, excs, sock_pc, sig_pc, sig_pending,
                   loop_pc, store_pc, open_connections, active_driver, location, line,
                   buf, conn_pc, conn_loc, dev_chunk, dev_tail>>
    /\ DaemonOnly

\* 67: open() raises LoggedException (stm_agps.py 39-40)
LoadOpenFail ==
    /\ Running
    /\ load_pc = "spawned"
    /\ load_pc' = "failed"
    /\ Raise("Fault")
    /\ UNCHANGED <<run_pc, body_pc, sock_pc, sig_pc, sig_pending, loop_pc, store_pc,
                   open_connections, active_driver, location, line, buf, conn_pc,
                   conn_loc, dev_open, dev_chunk, dev_tail>>
    /\ DaemonOnly

\* 68-72: driver.load() returns, __aexit__ closes the session, started() is called
LoadFinish ==
    /\ Running
    /\ load_pc = "loading"
    /\ load_pc' = "done"
    /\ dev_open' = [dev_open EXCEPT !.load = @ - 1]
    /\ UNCHANGED <<run_pc, body_pc, cancelled, excs, sock_pc, sig_pc, sig_pending,
                   loop_pc, store_pc, open_connections, active_driver, location, line,
                   buf, conn_pc, conn_loc, dev_chunk, dev_tail>>
    /\ DaemonOnly

\* 68: driver.load() raises (set_time, stm_agps.py 172-173); __aexit__ closes the session
LoadFail ==
    /\ Running
    /\ load_pc = "loading"
    /\ load_pc' = "failed"
    /\ dev_open' = [dev_open EXCEPT !.load = @ - 1]
    /\ Raise("Fault")
    /\ UNCHANGED <<run_pc, body_pc, sock_pc, sig_pc, sig_pending, loop_pc, store_pc,
                   open_connections, active_driver, location, line, buf, conn_pc,
                   conn_loc, dev_chunk, dev_tail>>
    /\ DaemonOnly

\* load() is cancelled: __aexit__ closes the session if it was open
LoadCancel ==
    /\ run_pc = "nursery"
    /\ cancelled
    /\ load_pc \in {"spawned", "loading"}
    /\ load_pc' = "failed"
    /\ dev_open' = [dev_open EXCEPT !.load = 0]
    /\ UNCHANGED <<run_pc, body_pc, cancelled, excs, sock_pc, sig_pc, sig_pending,
                   loop_pc, store_pc, open_connections, active_driver, location, line,
                   buf, conn_pc, conn_loc, dev_chunk, dev_tail>>
    /\ DaemonOnly

----------------------------------------------------------------------------
(* GnssShare._start_sock_server (main.py 109-129) *)

\* 111-120: no collision, the socket is created, bind() is awaited
SockStart ==
    /\ Running
    /\ sock_pc = "spawned"
    /\ sock_pc' = "binding"
    /\ UNCHANGED <<run_pc, body_pc, cancelled, excs, load_pc, sig_pc, sig_pending,
                   loop_pc, store_pc, open_connections, active_driver, location, line,
                   buf, conn_pc, conn_loc, dev_open, dev_chunk, dev_tail>>
    /\ DaemonOnly

\* 111-115: the socket path is an existing file or symlink
SockCollision ==
    /\ Running
    /\ sock_pc = "spawned"
    /\ sock_pc' = "collided"
    /\ Raise("Fault")
    /\ UNCHANGED <<run_pc, body_pc, load_pc, sig_pc, sig_pending, loop_pc, store_pc,
                   open_connections, active_driver, location, line, buf, conn_pc,
                   conn_loc, dev_open, dev_chunk, dev_tail>>
    /\ DaemonOnly

\* 120-129: bound, owner and mode set, listening: serve_listeners accepts
SockServe ==
    /\ Running
    /\ sock_pc = "binding"
    /\ sock_pc' = "serving"
    /\ UNCHANGED <<run_pc, body_pc, cancelled, excs, load_pc, sig_pc, sig_pending,
                   loop_pc, store_pc, open_connections, active_driver, location, line,
                   buf, conn_pc, conn_loc, dev_open, dev_chunk, dev_tail>>
    /\ DaemonOnly

\* 120-125: bind, getgrnam, chown or chmod raises
SockSetupFail ==
    /\ Running
    /\ sock_pc = "binding"
    /\ sock_pc' = "done"
    /\ Raise("Fault")
    /\ UNCHANGED <<run_pc, body_pc, load_pc, sig_pc, sig_pending, loop_pc, store_pc,
                   open_connections, active_driver, location, line, buf, conn_pc,
                   conn_loc, dev_open, dev_chunk, dev_tail>>
    /\ DaemonOnly

\* cancelled: serve_listeners ends once its connection tasks have ended
SockCancel ==
    /\ run_pc = "nursery"
    /\ cancelled
    /\ sock_pc \in {"spawned", "binding", "serving"}
    /\ \A c \in Conns : conn_pc[c] = "closed"
    /\ sock_pc' = "done"
    /\ UNCHANGED <<run_pc, body_pc, cancelled, excs, load_pc, sig_pc, sig_pending,
                   loop_pc, store_pc, open_connections, active_driver, location, line,
                   buf, conn_pc, conn_loc, dev_open, dev_chunk, dev_tail>>
    /\ DaemonOnly

----------------------------------------------------------------------------
(* GnssShare._handle_socket_connection (main.py 88-107) *)

\* 95-100: one pass of the loop up to its checkpoint: send_all if there is a
\* location, else sleep(1)
Broadcast(c) ==
    LET loc == GetLocation IN
    IF ShouldSend(loc)
    THEN /\ conn_pc' = [conn_pc EXCEPT ![c] = "sending"]
         /\ conn_loc' = [conn_loc EXCEPT ![c] = loc]
    ELSE /\ conn_pc' = [conn_pc EXCEPT ![c] = "sleep"]
         /\ conn_loc' = [conn_loc EXCEPT ![c] = <<>>]

\* a client connects: serve_listeners starts the handler, which appends the
\* connection (92) and makes its first pass. A new connection is given the
\* lowest name that is free.
Connect(c) ==
    /\ Running
    /\ sock_pc = "serving"
    /\ conn_pc[c] = "closed"
    /\ \A e \in Conns : e < c => conn_pc[e] # "closed"
    /\ open_connections' = Append(open_connections, c)
    /\ Broadcast(c)
    /\ UNCHANGED <<run_pc, body_pc, cancelled, excs, sock_pc, load_pc, sig_pc,
                   sig_pending, loop_pc, store_pc, active_driver, location, line, buf,
                   dev_open, dev_chunk, dev_tail>>
    /\ DaemonOnly

\* 100, 95-97: sleep(1) is over, the next pass
ConnIter(c) ==
    /\ Running
    /\ conn_pc[c] = "sleep"
    /\ Broadcast(c)
    /\ UNCHANGED <<run_pc, body_pc, cancelled, excs, sock_pc, load_pc, sig_pc,
                   sig_pending, loop_pc, store_pc, open_connections, active_driver,
                   location, line, buf, dev_open, dev_chunk, dev_tail>>
    /\ DaemonOnly

\* 97-100: send_all returned, sleep(1)
ConnSent(c) ==
    /\ Running
    /\ conn_pc[c] = "sending"
    /\ conn_pc' = [conn_pc EXCEPT ![c] = "sleep"]
    /\ conn_loc' = [conn_loc EXCEPT ![c] = <<>>]
    /\ UNCHANGED <<run_pc, body_pc, cancelled, excs, sock_pc, load_pc, sig_pc,
                   sig_pending, loop_pc, store_pc, open_connections, active_driver,
                   location, line, buf, dev_open, dev_chunk, dev_tail>>
    /\ DaemonOnly

\* 101-107: send_all raises BrokenResourceError (the client is gone): caught, the
\* connection is removed and closed, the task ends
ConnBroken(c) ==
    /\ Running
    /\ conn_pc[c] = "sending"
    /\ conn_pc' = [conn_pc EXCEPT ![c] = "closed"]
    /\ conn_loc' = [conn_loc EXCEPT ![c] = <<>>]
    /\ open_connections' = Remove(open_connections, c)
    /\ UNCHANGED <<run_pc, body_pc, cancelled, excs, sock_pc, load_pc, sig_pc,
                   sig_pending, loop_pc, store_pc, active_driver, location, line, buf,
                   dev_open, dev_chunk, dev_tail>>
    /\ DaemonOnly

\* 103-107: the task is cancelled at send_all or sleep: finally removes and closes
ConnCancel(c) ==
    /\ run_pc = "nursery"
    /\ cancelled
    /\ conn_pc[c] \in {"sleep", "sending"}
    /\ conn_pc' = [conn_pc EXCEPT ![c] = "closed"]
    /\ conn_loc' = [conn_loc EXCEPT ![c] = <<>>]
    /\ open_connections' = Remove(open_connections, c)
    /\ UNCHANGED <<run_pc, body_pc, cancelled, excs, sock_pc, load_pc, sig_pc,
                   sig_pending, loop_pc, store_pc, active_driver, location, line, buf,
                   dev_open, dev_chunk, dev_tail>>
    /\ DaemonOnly

----------------------------------------------------------------------------
(* The device: it emits records; a read returns what has arrived *)

\* a record (or two) arrives, whole or cut in two chunks
DeviceEmit ==
    /\ run_pc = "nursery"
    /\ dev_chunk = <<>>
    /\ IF dev_tail # <<>>
       THEN dev_chunk' = dev_tail /\ dev_tail' = <<>>
       ELSE \E r \in DevBursts : \E p \in {SplitAt, Len(r)} :
                /\ p <= Len(r)
                /\ dev_chunk' = Take(r, p)
                /\ dev_tail' = Drop(r, p)
    /\ UNCHANGED <<run_pc, body_pc, cancelled, excs, sock_pc, load_pc, sig_pc,
                   sig_pending, loop_pc, store_pc, open_connections, active_driver,
                   location, line, buf, conn_pc, conn_loc, dev_open>>
    /\ DaemonOnly

----------------------------------------------------------------------------
(* GnssShare._run_loop (main.py 131-156) *)

\* a filter that forgets the stored line when it drops one
LocationOrNothing(l) == IF PrefixAccepted(l) THEN l ELSE <<>>

\* main.py 142-143: _location is assigned under the test, and not otherwise
LocationAfter(l) == IF PrefixAccepted(l) THEN l ELSE location

\* 141-147: a line was read: filter it, then sleep(.2)
LoopAccept(l) ==
    /\ line' = l
    /\ location' = LocationAfter(l)
    /\ loop_pc' = "sleep_active"

\* 135-156: the top of the loop, up to the next checkpoint
LoopTop ==
    /\ Running
    /\ loop_pc \in {"spawned", "sleep_active", "sleep_idle"}
    /\ IF HasClients
       THEN IF active_driver = "None"
            THEN \* 138-139: construct the driver, await open()
                 /\ active_driver' = "set"
                 /\ buf' = <<>>
                 /\ loop_pc' = "opening"
                 /\ UNCHANGED <<location, line>>
            ELSE \* 140: readline(): from the buffer, or wait in receive_some
                 LET r == ReadlineBuffered(buf) IN
                 IF r.hit
                 THEN /\ LoopAccept(r.line)
                      /\ buf' = r.buf
                      /\ UNCHANGED active_driver
                 ELSE /\ loop_pc' = "readline"
                      /\ line' = <<>>
                      /\ UNCHANGED <<active_driver, buf, location>>
       ELSE IF DriverToClose
            THEN \* 149-152: await close()
                 /\ loop_pc' = "closing"
                 /\ line' = <<>>
                 /\ UNCHANGED <<active_driver, buf, location>>
            ELSE \* 156: sleep(2)
                 /\ loop_pc' = "sleep_idle"
                 /\ line' = <<>>
                 /\ UNCHANGED <<active_driver, buf, location>>
    /\ UNCHANGED <<run_pc, body_pc, cancelled, excs, sock_pc, load_pc, sig_pc,
                   sig_pending, store_pc, open_connections, conn_pc, conn_loc,
                   dev_open, dev_chunk, dev_tail>>
    /\ DaemonOnly

\* 139-140: open() returned; readline() finds the new buffer empty and waits
LoopOpened ==
    /\ Running
    /\ loop_pc = "opening"
    /\ dev_open' = [dev_open EXCEPT !.loop = @ + 1]
    /\ loop_pc' = "readline"
    /\ UNCHANGED <<run_pc, body_pc, cancelled, excs, sock_pc, load_pc, sig_pc,
                   sig_pending, store_pc, open_connections, active_driver, location,
                   line, buf, conn_pc, conn_loc, dev_chunk, dev_tail>>
    /\ DaemonOnly

\* 139: open() raises LoggedException
LoopOpenFail ==
    /\ Running
    /\ loop_pc = "opening"
    /\ loop_pc' = "done"
    /\ Raise("Fault")
    /\ UNCHANGED <<run_pc, body_pc, sock_pc, load_pc, sig_pc, sig_pending, store_pc,
                   open_connections, active_driver, location, line, buf, conn_pc,
                   conn_loc, dev_open, dev_chunk, dev_tail>>
    /\ DaemonOnly

\* 140-147 with stm_agps.py 51-60: receive_some returned a chunk
LoopRecv ==
    /\ Running
    /\ loop_pc = "readline"
    /\ dev_chunk # <<>>
    /\ LET data == RecvSome(dev_chunk, RecvMaxFile)
           r == ReadlineChunk(buf, data)
       IN /\ dev_chunk' = Drop(dev_chunk, Len(data))
          /\ buf' = r.buf
          /\ IF r.hit
             THEN LoopAccept(r.line)
             ELSE loop_pc' = "rl_sleep" /\ UNCHANGED <<line, location>>
    /\ UNCHANGED <<run_pc, body_pc, cancelled, excs, sock_pc, load_pc, sig_pc,
                   sig_pending, store_pc, open_connections, active_driver, conn_pc,
                   conn_loc, dev_open, dev_tail>>
    /\ DaemonOnly

\* stm_agps.py 60, 50-51: sleep(0.5) inside readline is over, read again
LoopReadAgain ==
    /\ Running
    /\ loop_pc = "rl_sleep"
    /\ loop_pc' = "readline"
    /\ UNCHANGED <<run_pc, body_pc, cancelled, excs, sock_pc, load_pc, sig_pc,
                   sig_pending, store_pc, open_connections, active_driver, location,
                   line, buf, conn_pc, conn_loc, dev_open, dev_chunk, dev_tail>>
    /\ DaemonOnly

\* 152-156: close() returned, the driver is dropped, sleep(2)
LoopClosed ==
    /\ Running
    /\ loop_pc = "closing"
    /\ dev_open' = [dev_open EXCEPT !.loop = @ - 1]
    /\ active_driver' = "None"
    /\ buf' = <<>>
    /\ loop_pc' = "sleep_idle"
    /\ UNCHANGED <<run_pc, body_pc, cancelled, excs, sock_pc, load_pc, sig_pc,
                   sig_pending, store_pc, open_connections, location, line, conn_pc,
                   conn_loc, dev_chunk, dev_tail>>
    /\ DaemonOnly

\* the loop is cancelled at its checkpoint. Nothing in _run_loop runs on the way
\* out: _active_driver keeps the driver. A pending open() has opened the file or
\* not; a pending close() closes it (trio closes a file even when cancelled)
LoopCancel ==
    /\ run_pc = "nursery"
    /\ cancelled
    /\ loop_pc \notin {"unspawned", "done"}
    /\ loop_pc' = "done"
    /\ \E opened \in BOOLEAN :
          dev_open' = [dev_open EXCEPT !.loop =
                          IF loop_pc = "opening" /\ opened THEN 1
                          ELSE IF loop_pc = "closing" THEN 0
                          ELSE @]
    /\ UNCHANGED <<run_pc, body_pc, cancelled, excs, sock_pc, load_pc, sig_pc,
                   sig_pending, store_pc, open_connections, active_driver, location,
                   line, buf, conn_pc, conn_loc, dev_chunk, dev_tail>>
    /\ DaemonOnly

----------------------------------------------------------------------------
(* GnssShare._signal_receiver (main.py 158-172) and the signals *)

\* 163-165: the receiver is installed and waits
SigInstall ==
    /\ Running
    /\ sig_pc = "spawned"
    /\ sig_pc' = "waiting"
    /\ UNCHANGED <<run_pc, body_pc, cancelled, excs, sock_pc, load_pc, sig_pending,
                   loop_pc, store_pc, open_connections, active_driver, location, line,
                   buf, conn_pc, conn_loc, dev_open, dev_chunk, dev_tail>>
    /\ DaemonOnly

\* SIGTERM or SIGINT is delivered to the process. With the receiver installed
\* the signal is queued for it. Without it the default applies: SIGTERM ends
\* the process at once, SIGINT raises KeyboardInterrupt in the running code.
Signal(sig) ==
    /\ run_pc \in {"nursery", "store"}
    /\ IF run_pc = "nursery" /\ sig_pc = "waiting"
       THEN /\ sig_pending' = TRUE
            /\ UNCHANGED <<run_pc, cancelled, excs, store_pc, dev_open>>
       ELSE IF sig = "SIGTERM"
       THEN /\ run_pc' = "killed"
            /\ UNCHANGED <<cancelled, excs, sig_pending, store_pc, dev_open>>
       ELSE IF run_pc = "nursery"
       THEN /\ Raise("KeyboardInterrupt")
            /\ UNCHANGED <<run_pc, sig_pending, store_pc, dev_open>>
       ELSE \* KeyboardInterrupt inside store(): __aexit__ closes its session
            /\ run_pc' = "raised"
            /\ store_pc' = "failed"
            /\ dev_open' = [dev_open EXCEPT !.store = 0]
            /\ UNCHANGED <<cancelled, excs, sig_pending>>
    /\ UNCHANGED <<body_pc, sock_pc, load_pc, sig_pc, loop_pc, open_connections,
                   active_driver, location, line, buf, conn_pc, conn_loc, dev_chunk,
                   dev_tail>>
    /\ DaemonOnly

\* 165-172: the receiver takes the signal and raises SystemExit. A receiver that
\* was woken by a signal runs on even if the nursery was cancelled meanwhile.
SigRaise ==
    /\ run_pc = "nursery"
    /\ sig_pc = "waiting"
    /\ sig_pending
    /\ sig_pc' = "done"
    /\ sig_pending' = FALSE
    /\ Raise("SystemExit")
    /\ UNCHANGED <<run_pc, body_pc, sock_pc, load_pc, loop_pc, store_pc,
                   open_connections, active_driver, location, line, buf, conn_pc,
                   conn_loc, dev_open, dev_chunk, dev_tail>>
    /\ DaemonOnly

\* the receiver is cancelled while no signal waits
SigCancel ==
    /\ run_pc = "nursery"
    /\ cancelled
    /\ sig_pc \in {"spawned", "waiting"}
    /\ ~sig_pending
    /\ sig_pc' = "done"
    /\ UNCHANGED <<run_pc, body_pc, cancelled, excs, sock_pc, load_pc, sig_pending,
                   loop_pc, store_pc, open_connections, active_driver, location, line,
                   buf, conn_pc, conn_loc, dev_open, dev_chunk, dev_tail>>
    /\ DaemonOnly

----------------------------------------------------------------------------
(* The end of the nursery and the final store() (main.py 192-196, 74-79) *)

AllTasksDone ==
    /\ body_pc = "done"
    /\ sock_pc \in {"done", "collided"}
    /\ load_pc \in {"done", "failed"}
    /\ sig_pc \in {"unspawned", "done"}
    /\ loop_pc \in {"unspawned", "done"}

\* 192-196: the nursery raises what its tasks raised; SystemExit alone is caught
\* and store() is called
NurseryExit ==
    /\ run_pc = "nursery"
    /\ cancelled
    /\ AllTasksDone
    /\ IF ExceptSystemExit(excs)
       THEN run_pc' = "store" /\ store_pc' = "called"
       ELSE run_pc' = "raised" /\ UNCHANGED store_pc
    /\ UNCHANGED <<body_pc, cancelled, excs, sock_pc, load_pc, sig_pc, sig_pending,
                   loop_pc, open_connections, active_driver, location, line, buf,
                   conn_pc, conn_loc, dev_open, dev_chunk, dev_tail>>
    /\ DaemonOnly

\* 78: store() constructs and opens its own driver
StoreOpen ==
    /\ run_pc = "store"
    /\ store_pc = "called"
    /\ store_pc' = "open"
    /\ dev_open' = [dev_open EXCEPT !.store = @ + 1]
    /\ UNCHANGED <<run_pc, body_pc, cancelled, excs, sock_pc, load_pc, sig_pc,
                   sig_pending, loop_pc, open_connections, active_driver, location,
                   line, buf, conn_pc, conn_loc, dev_chunk, dev_tail>>
    /\ DaemonOnly

\* 78: open() raises
StoreOpenFail ==
    /\ run_pc = "store"
    /\ store_pc = "called"
    /\ store_pc' = "failed"
    /\ run_pc' = "raised"
    /\ UNCHANGED <<body_pc, cancelled, excs, sock_pc, load_pc, sig_pc, sig_pending,
                   loop_pc, open_connections, active_driver, location, line, buf,
                   conn_pc, conn_loc, dev_open, dev_chunk, dev_tail>>
    /\ DaemonOnly

\* 79: driver.store() returns or raises; __aexit__ closes the session; run ends
StoreFinish(ok) ==
    /\ run_pc = "store"
    /\ store_pc = "open"
    /\ store_pc' = IF ok THEN "done" ELSE "failed"
    /\ run_pc' = IF ok THEN "returned" ELSE "raised"
    /\ dev_open' = [dev_open EXCEPT !.store = @ - 1]
    /\ UNCHANGED <<body_pc, cancelled, excs, sock_pc, load_pc, sig_pc, sig_pending,
                   loop_pc, open_connections, active_driver, location, line, buf,
                   conn_pc, conn_loc, dev_chunk, dev_tail>>
    /\ DaemonOnly

----------------------------------------------------------------------------
(* Specification of the daemon *)

FramerIdle ==
    /\ f_variant = "file" /\ f_stream = <<>> /\ f_rest = <<>> /\ f_buf = <<>>
    /\ f_pc = "off" /\ f_lines = <<>>

NoOp == [kind |-> "off", wire |-> <<>>, expect |-> <<>>, cmd |-> <<>>, ack |-> <<>>]
NoResult == [done |-> FALSE, ok |-> FALSE, line |-> <<>>]
NoFile == [present |-> FALSE, lines |-> <<>>]

DriverIdle ==
    /\ d_op = NoOp /\ d_pc = "off" /\ d_written = <<>> /\ d_reads = 0
    /\ d_line = <<>> /\ d_result = NoResult /\ d_file = NoFile /\ d_first_match = 0
    /\ d_lastraw = <<>> /\ d_shape = "off" /\ d_data = <<>>

AgpsIdle ==
    /\ a_call = "off" /\ a_pc = "off" /\ a_phase = "none" /\ a_idx = 0
    /\ a_dir = [almanac |-> NoFile, ephemeris |-> NoFile]
    /\ a_before = [almanac |-> NoFile, ephemeris |-> NoFile]
    /\ a_sent = <<>> /\ a_acks = <<>>

\* main.py 38-61: the state __init__ leaves, run() about to start
DaemonInit ==
    /\ run_pc = "enter"
    /\ body_pc = "start"
    /\ cancelled = FALSE
    /\ excs = {}
    /\ sock_pc = "unspawned"
    /\ load_pc = "unspawned"
    /\ sig_pc = "unspawned"
    /\ sig_pending = FALSE
    /\ loop_pc = "unspawned"
    /\ store_pc = "notrun"
    /\ open_connections = <<>>
    /\ active_driver = "None"
    /\ location = <<>>
    /\ line = <<>>
    /\ buf = <<>>
    /\ conn_pc = [c \in Conns |-> "closed"]
    /\ conn_loc = [c \in Conns |-> <<>>]
    /\ dev_open = [load |-> 0, loop |-> 0, store |-> 0]
    /\ dev_chunk = <<>>
    /\ dev_tail = <<>>

Init == DaemonInit /\ FramerIdle /\ DriverIdle /\ AgpsIdle

Next ==
    \/ RunEnter \/ BodyResume \/ BodyCancel
    \/ LoadOpen \/ LoadOpenFail \/ LoadFinish \/ LoadFail \/ LoadCancel
    \/ SockStart \/ SockCollision \/ SockServe \/ SockSetupFail \/ SockCancel
    \/ \E c \in Conns : Connect(c)
    \/ \E c \in Conns : ConnIter(c)
    \/ \E c \in Conns : ConnSent(c)
    \/ \E c \in Conns : ConnBroken(c)
    \/ \E c \in Conns : ConnCancel(c)
    \/ DeviceEmit
    \/ LoopTop \/ LoopOpened \/ LoopOpenFail \/ LoopRecv \/ LoopReadAgain
    \/ LoopClosed \/ LoopCancel
    \/ SigInstall \/ SigRaise \/ SigCancel
    \/ \E sig \in {"SIGTERM", "SIGINT"} : Signal(sig)
    \/ NurseryExit \/ StoreOpen \/ StoreOpenFail
    \/ \E ok \in BOOLEAN : StoreFinish(ok)

Spec == Init /\ [][Next]_vars

\* the lifecycle loop takes its steps: trio runs a task that can run, a sleep
\* ends, open() and close() return; a read returns once bytes have arrived
LoopFairness ==
    /\ WF_vars(LoopTop)
    /\ WF_vars(LoopOpened)
    /\ WF_vars(LoopRecv)
    /\ WF_vars(LoopReadAgain)
    /\ WF_vars(LoopClosed)

\* the daemon in service: it starts, clients come and go, the device sends,
\* the loop runs; no signal and no fault
NextInService ==
    \/ RunEnter \/ BodyResume \/ LoadOpen \/ LoadFinish
    \/ SockStart \/ SockServe \/ SigInstall
    \/ \E c \in Conns : Connect(c)
    \/ \E c \in Conns : ConnIter(c)
    \/ \E c \in Conns : ConnSent(c)
    \/ \E c \in Conns : ConnBroken(c)
    \/ DeviceEmit
    \/ LoopTop \/ LoopOpened \/ LoopRecv \/ LoopReadAgain \/ LoopClosed

SpecLoopFair == Init /\ [][NextInService]_vars /\ LoopFairness

----------------------------------------------------------------------------
(* Claims about the daemon (Spec) *)

LoopSessionOpen == active_driver = "set" /\ dev_open.loop = 1

\* C1 as stated: while the daemon runs, the lifecycle loop's device session is
\* open if and only if the connection set is non-empty, in every state.
C1_SessionIffClients ==
    Running => (LoopSessionOpen <=> Len(open_connections) > 0)

C1_Mode ==
    /\ loop_pc \in {"readline", "rl_sleep", "sleep_active", "closing"} => LoopSessionOpen
    /\ loop_pc \in {"unspawned", "spawned", "sleep_idle"} =>
           active_driver = "None" /\ dev_open.loop = 0

C1_Step ==
    /\ (loop_pc # "opening" /\ loop_pc' = "opening") =>
           Len(open_connections) > 0 /\ active_driver = "None"
    /\ (loop_pc # "closing" /\ loop_pc' = "closing") =>
           Len(open_connections) = 0 /\ active_driver = "set"
    /\ (loop_pc # "sleep_idle" /\ loop_pc' = "sleep_idle" /\ loop_pc # "closing") =>
           Len(open_connections) = 0
    /\ dev_open'.loop > dev_open.loop => loop_pc = "opening"
    /\ dev_open'.loop < dev_open.loop => loop_pc = "closing"

\* C1 amended: the session follows the connection set at the loop's polling
\* points only. The loop starts to open a session only in a step that finds the
\* connection set non-empty and _active_driver None, and starts to close it only
\* in a step that finds the set empty; while it reads or sleeps 0.2 s the
\* session is open, while it sleeps 2 s the session is closed and
\* _active_driver is None.
C1_SessionFollowsAtPolls == [](C1_Mode) /\ [][C1_Step]_vars

\* a session was opened, a fix read, and the session closed again
C1_Witness ==
    loop_pc = "sleep_idle" /\ active_driver = "None" /\ location # <<>>

\* C2: at most one session on the device path is open at any time, counting
\* load(), the lifecycle loop and store() together.
C2_AtMostOneSession ==
    dev_open.load + dev_open.loop + dev_open.store <= 1

SigSeen ==
    \/ sig_pending
    \/ "SystemExit" \in excs
    \/ "KeyboardInterrupt" \in excs
    \/ run_pc = "killed"

\* C3 as stated: a signal delivered at any point after the task group was
\* entered has store() run before run ends.
C3_AnySignalStores ==
    (SigSeen /\ run_pc \in {"returned", "raised", "killed"}) => store_pc # "notrun"

\* C3 amended: a signal is received only by the installed receiver, which
\* exists only after the initial load has completed; a received signal cancels
\* the task group and, when SystemExit is all the group raises, store() is
\* invoked before run ends, and has completed when run returns.
C3_ReceivedSignalStores ==
    /\ (sig_pending \/ "SystemExit" \in excs) => load_pc = "done"
    /\ "SystemExit" \in excs => cancelled
    /\ (run_pc \in {"returned", "raised"} /\ excs = {"SystemExit"}) => store_pc # "notrun"
    /\ run_pc = "returned" => store_pc = "done" /\ excs = {"SystemExit"}

C3_Witness ==
    run_pc = "returned" /\ excs = {"SystemExit"} /\ store_pc = "done"

\* C4: when a task of the group failed with an unhandled fault, store() is
\* never invoked; store() is invoked only when SystemExit is all that was raised.
C4_FaultSkipsStore ==
    /\ ("Fault" \in excs \/ "KeyboardInterrupt" \in excs) => store_pc = "notrun"
    /\ store_pc # "notrun" => excs = {"SystemExit"}

\* a fault met a received signal, and run ended without store()
C4_Witness ==
    run_pc = "raised" /\ excs = {"Fault", "SystemExit"} /\ store_pc = "notrun"

\* C5: send_all is only ever called with a non-empty location, and nothing is
\* being sent to any client while no fix has been accepted.
C5_NeverSendsEmpty ==
    /\ \A c \in Conns : conn_pc[c] = "sending" => conn_loc[c] # <<>>
    /\ location = <<>> => \A c \in Conns : conn_pc[c] # "sending"

\* one client is being sent a fix while another, connected with it, is between sends
C5_Witness ==
    \E c, e \in Conns :
        /\ conn_pc[c] = "sending" /\ conn_loc[c] = location
        /\ conn_pc[e] = "sleep"

C9_Step ==
    /\ location' # location =>
           /\ location' = line'
           /\ FirstField(line') \in GNSS_PREFIXES
           /\ loop_pc' = "sleep_active"
           /\ loop_pc \in {"readline", "sleep_active", "sleep_idle", "spawned"}
           /\ buf' # buf \/ dev_chunk' # dev_chunk
    /\ (/\ loop_pc' = "sleep_active"
        /\ loop_pc = "readline" \/ buf' # buf
        /\ FirstField(line') \notin GNSS_PREFIXES) => location' = location

\* C9: _location changes only in a step of the lifecycle loop that has just
\* read a line whose first comma-delimited field is a GNSS prefix, and becomes
\* that line; a line read with any other first field leaves it unchanged.
C9_LocationOnlyFromPrefixedLine == [][C9_Step]_vars

\* after a fix was accepted, a line that is a prefix without a comma was read and dropped
C9_Witness ==
    loop_pc = "sleep_active" /\ line = LineBare /\ location = LineGP

\* C10: the lifecycle loop exists only after load() has completed and closed its
\* session, and has read nothing before; the socket server was started before
\* load(); a client is sent data only after the loop has accepted a fix.
C10_LoadBeforeLoop ==
    /\ loop_pc # "unspawned" => load_pc = "done" /\ dev_open.load = 0
    /\ loop_pc = "unspawned" =>
           location = <<>> /\ line = <<>> /\ buf = <<>> /\ dev_open.loop = 0
    /\ load_pc # "unspawned" => sock_pc # "unspawned"
    /\ (\E c \in Conns : conn_pc[c] = "sending") =>
           location # <<>> /\ loop_pc # "unspawned"

\* a client is connected while load() still holds the device
C10_Witness ==
    load_pc = "loading" /\ dev_open.load = 1 /\ Len(open_connections) > 0

C11_Step ==
    (sock_pc # "collided" /\ sock_pc' = "collided") =>
        /\ load_pc \in {"unspawned", "spawned"}
        /\ dev_open.load = 0

\* C11: when the socket path collision is raised, load() has not begun: it has
\* not opened the device.
C11_CollisionBeforeLoad == [][C11_Step]_vars

InSet(c) == \E i \in 1..Len(open_connections) : open_connections[i] = c

C12_Ended == \A c \in Conns : conn_pc[c] = "closed" => ~InSet(c)

C12_Step ==
    \A c \in Conns :
        (conn_pc[c] = "sending" /\ conn_pc'[c] = "closed" /\ ~cancelled) =>
            /\ ~cancelled' /\ excs' = excs /\ run_pc' = run_pc
            /\ sock_pc' = sock_pc /\ loop_pc' = loop_pc /\ sig_pc' = sig_pc
            /\ \A e \in Conns \ {c} :
                   /\ conn_pc'[e] = conn_pc[e]
                   /\ InSet(e) => InSet(e)'
            /\ ~InSet(c)'

\* C12: a send that fails because the client is gone ends that connection's
\* task only: the connection leaves the connection set, nothing is raised in
\* the task group, and the accept loop, the lifecycle loop and the other
\* connection tasks are where they were; a connection whose task has ended,
\* by failure or by shutdown, is not in the connection set.
C12_BrokenSendEndsOneTask == [](C12_Ended) /\ [][C12_Step]_vars

\* the first client is gone while the daemon runs on; the second, connected
\* with it, is still served and the lifecycle loop still reads
C12_Witness ==
    /\ Running /\ sock_pc = "serving"
    /\ conn_pc[1] = "closed" /\ conn_pc[2] = "sending"
    /\ open_connections = <<2>>
    /\ loop_pc = "readline"

C20_Step ==
    \A c \in Conns :
        (conn_pc[c] # "sending" /\ conn_pc'[c] = "sending") =>
            /\ active_driver # "None" /\ active_driver' # "None"
            /\ conn_loc'[c] = location /\ location # <<>>

C20_Silent ==
    active_driver = "None" =>
        /\ GetLocation = <<>>
        /\ \A c \in Conns : conn_pc[c] = "sleep" => conn_loc[c] = <<>>

\* C20: while _active_driver is None, _get_location yields the empty value
\* whatever _location holds, and every call of send_all is made in a state
\* where _active_driver is set, with the stored location.
C20_NoSendWithoutDriver == [](C20_Silent) /\ [][C20_Step]_vars

\* a fix is stored, the loop has closed its session, and a client connected
\* since then has been sent nothing
C20_Witness ==
    /\ Running /\ active_driver = "None" /\ location # <<>>
    /\ loop_pc = "sleep_idle"
    /\ open_connections = <<1>> /\ conn_pc[1] = "sleep"

C21_Step ==
    /\ location # <<>> => location' # <<>>
    /\ (loop_pc \in {"closing", "opening"} \/ loop_pc' \in {"closing", "opening"}) =>
           location' = location
    /\ active_driver' # active_driver => location' = location
    /\ \A c \in Conns :
           (conn_pc[c] # "sending" /\ conn_pc'[c] = "sending") =>
               conn_loc'[c] = location' /\ location' = location

\* C21: _location, once non-empty, stays non-empty; closing the session, and
\* opening the next, leave it as it is; and what a client is sent is the
\* stored line, which is the line of the earlier session until the loop accepts
\* a new one.
C21_LocationNeverCleared == [][C21_Step]_vars

\* the loop is opening a new session, none is open, and a client is being sent
\* the line accepted in the session before
C21_Witness ==
    /\ Running /\ loop_pc = "opening" /\ dev_open.loop = 0
    /\ location # <<>>
    /\ \E c \in Conns : conn_pc[c] = "sending" /\ conn_loc[c] = location

----------------------------------------------------------------------------
(* Claims about the lifecycle loop's progress (SpecLoopFair) *)

C14_EmptyWhileOpen == Running /\ LoopSessionOpen /\ open_connections = <<>>

C14_ClosedOrMoot ==
    \/ active_driver = "None" /\ dev_open.loop = 0
    \/ open_connections # <<>>
    \/ ~Running

\* C14 as stated: once the connection set is empty while the loop's session is
\* open, the loop closes the session and sets _active_driver to None, unless a
\* client connects again; nothing is assumed of the device.
C14_EmptyLeadsToClosed == C14_EmptyWhileOpen ~> C14_ClosedOrMoot

\* the device goes on sending: a read the loop waits in gets bytes
C14_DeviceTalks == []<>(loop_pc # "readline" \/ dev_chunk # <<>>)

\* C14 amended: the same, provided the device keeps sending, so that the
\* readline the loop waits in returns.
C14_EmptyLeadsToClosedIfDeviceTalks == C14_DeviceTalks => C14_EmptyLeadsToClosed

\* the last client has gone while the loop waits in readline for a silent device
C14_Witness ==
    /\ C14_EmptyWhileOpen /\ loop_pc = "readline" /\ dev_chunk = <<>> /\ dev_tail = <<>>

----------------------------------------------------------------------------
(* SpecFramer: readline called again and again on a stream that arrives in *)
(* chunks of any size the transport allows                                *)

FAlphabet == {"a", "b", NL}
FStreams == UNION {[1..k -> FAlphabet] : k \in 0..MaxStream}

FBuffered(b) ==
    IF f_variant = "file" THEN ReadlineBuffered(b) ELSE SerialReadlineBuffered(b)
FChunk(b, data) ==
    IF f_variant = "file" THEN ReadlineChunk(b, data) ELSE SerialReadlineChunk(b, data)
FRecvMax == IF f_variant = "file" THEN RecvMaxFile ELSE RecvMaxSerial

DaemonIdle ==
    /\ run_pc = "off" /\ body_pc = "off" /\ cancelled = FALSE /\ excs = {}
    /\ sock_pc = "off" /\ load_pc = "off" /\ sig_pc = "off" /\ sig_pending = FALSE
    /\ loop_pc = "off" /\ store_pc = "off" /\ open_connections = <<>>
    /\ active_driver = "None" /\ location = <<>> /\ line = <<>> /\ buf = <<>>
    /\ conn_pc = [c \in Conns |-> "off"] /\ conn_loc = [c \in Conns |-> <<>>]
    /\ dev_open = [load |-> 0, loop |-> 0, store |-> 0]
    /\ dev_chunk = <<>> /\ dev_tail = <<>>

\* stm_agps.py 16-23, stm_agps_serial.py 17-22: a new driver, its buffer empty
FramerInit ==
    /\ f_variant \in {"file", "serial"}
    /\ f_stream \in FStreams
    /\ f_rest = f_stream
    /\ f_buf = <<>>
    /\ f_pc = "idle"
    /\ f_lines = <<>>
    /\ DaemonIdle /\ DriverIdle /\ AgpsIdle

\* readline() is called: 45-49, a line from the buffer, or on to receive_some
FramerCall ==
    /\ f_pc = "idle"
    /\ LET r == FBuffered(f_buf) IN
       IF r.hit
       THEN /\ f_lines' = Append(f_lines, r.line)
            /\ f_buf' = r.buf
            /\ UNCHANGED f_pc
       ELSE /\ f_pc' = "recv"
            /\ UNCHANGED <<f_lines, f_buf>>
    /\ UNCHANGED <<f_variant, f_stream, f_rest, dvars, pvars, avars>>

\* 51-60: receive_some returns the next n bytes of the stream
FramerRecv ==
    /\ f_pc = "recv"
    /\ f_rest # <<>>
    /\ \E n \in 1..Min(FRecvMax, Len(f_rest)) :
          LET data == Take(f_rest, n)
              r == FChunk(f_buf, data)
          IN /\ f_rest' = Drop(f_rest, n)
             /\ f_buf' = r.buf
             /\ IF r.hit
                THEN f_lines' = Append(f_lines, r.line) /\ f_pc' = "idle"
                ELSE /\ UNCHANGED f_lines
                     /\ f_pc' = IF f_variant = "file" THEN "sleep" ELSE "recv"
    /\ UNCHANGED <<f_variant, f_stream, dvars, pvars, avars>>

\* 51-60: the stream has ended and receive_some returns b"": no newline is
\* found, nothing is added to the buffer, and the loop goes on
FramerRecvEmpty ==
    /\ f_pc = "recv"
    /\ f_rest = <<>>
    /\ LET r == FChunk(f_buf, <<>>) IN
       /\ f_buf' = r.buf
       /\ IF r.hit
          THEN f_lines' = Append(f_lines, r.line) /\ f_pc' = "idle"
          ELSE /\ UNCHANGED f_lines
               /\ f_pc' = IF f_variant = "file" THEN "sleep" ELSE "recv"
    /\ UNCHANGED <<f_variant, f_stream, f_rest, dvars, pvars, avars>>

\* stm_agps.py 60: sleep(0.5) is over
FramerSleepDone ==
    /\ f_pc = "sleep"
    /\ f_pc' = "recv"
    /\ UNCHANGED <<f_variant, f_stream, f_rest, f_buf, f_lines, dvars, pvars, avars>>

FramerNext == FramerCall \/ FramerRecv \/ FramerRecvEmpty \/ FramerSleepDone

SpecFramer == FramerInit /\ [][FramerNext]_vars

----------------------------------------------------------------------------
(* Claims about readline (SpecFramer) *)

RECURSIVE Flatten(_)
Flatten(ss) == IF ss = <<>> THEN <<>> ELSE Head(ss) \o Flatten(Tail(ss))

RECURSIVE DrainBuffered(_)
DrainBuffered(b) ==
    LET r == FBuffered(b) IN
    IF r.hit THEN <<r.line>> \o DrainBuffered(r.buf) ELSE <<>>

\* what successive readline calls return when the stream s arrives as one chunk
OneChunkLines(s) ==
    LET r == FChunk(<<>>, s) IN
    IF r.hit THEN <<r.line>> \o DrainBuffered(r.buf) ELSE <<>>

Terminated(s) == s = <<>> \/ s[Len(s)] = NL
IsPrefix(a, b) == Len(a) <= Len(b) /\ Take(b, Len(a)) = a

\* C8: for a stream of newline-terminated records, the lines readline has
\* returned are, whatever the chunks, the first of those it returns when the
\* stream arrives as one chunk, and all of them once the stream is used up;
\* no byte is dropped: lines, buffer and unread stream make up the stream.
C8_ChunkingIrrelevant ==
    Terminated(f_stream) =>
        /\ IsPrefix(f_lines, OneChunkLines(f_stream))
        /\ Flatten(f_lines) \o f_buf \o f_rest = f_stream
        /\ (f_rest = <<>> /\ f_pc # "idle") =>
               f_lines = OneChunkLines(f_stream) /\ f_buf = <<>>

\* a line has been returned and the chunks read so far end in the middle of
\* the second record: its first byte is retained, the rest is still to come
C8_Witness ==
    /\ f_stream = <<"a", NL, "b", "a", NL>>
    /\ f_lines = << <<"a", NL>> >>
    /\ f_buf = <<"b">>
    /\ f_rest = <<"a", NL>>

C15_Step ==
    (f_pc = "recv" /\ f_rest = <<>> /\ f_buf # <<>>) =>
        /\ f_pc' = "error"
        /\ f_lines' = f_lines
        /\ f_buf' = f_buf

\* C15: when receive_some returns the empty chunk while the buffer holds an
\* unterminated partial line, that step ends readline with an error: no line
\* is returned, the buffer is kept, and readline does not go on waiting.
C15_EndOfStreamIsError == [][C15_Step]_vars

----------------------------------------------------------------------------
(* STM_AGPS: the command exchange and the dump (stm_agps.py 65-107) *)

\* stm_agps.py 67
polling_loops == 50

CRLF == <<"\r", NL>>

\* line[:-1]
StripLast(l) == Take(l, Len(l) - 1)

STMGPSRESET == <<"S", "T", "M", "G", "P", "S", "R", "E", "S", "E", "T">>
STMINITTIME == <<"S", "T", "M", "I", "N", "I", "T", "T", "I", "M", "E">>
STMINITTIMEOK == STMINITTIME \o <<"O", "K">>
STMDUMPALMANAC == <<"S", "T", "M", "D", "U", "M", "P", "A", "L", "M", "A", "N", "A", "C">>
PSTMALMANAC == <<"$", "P", "S", "T", "M", "A", "L", "M", "A", "N", "A", "C">>
STMDUMPEPHEMS == <<"S", "T", "M", "D", "U", "M", "P", "E", "P", "H", "E", "M", "S">>
PSTMEPHEM == <<"$", "P", "S", "T", "M", "E", "P", "H", "E", "M">>

\* the six fields of 163-170, each a token for its digits
TimeFields == <<"dd", "mm", "yyyy", "HH", "MM", "SS">>

RECURSIVE JoinComma(_)
JoinComma(fs) ==
    IF fs = <<>> THEN <<>>
    ELSE IF Len(fs) = 1 THEN <<fs[1]>>
    ELSE <<fs[1], ",">> \o JoinComma(Tail(fs))

\* str(pynmea2.GGA('P', type, data)): "$P" type "," fields "*" checksum, the two
\* checksum digits written as tokens
Render(type, data) ==
    <<"$", "P">> \o type \o <<",">> \o JoinComma(data) \o <<"*", "X", "X">>

\* a test that looks for the needle at the start of the line only
MatchAtStart(l, needle) == StartsWith(l, needle)

\* stm_agps.py 77 and 89: needle in line
CmdMatch(l, needle) == Contains(l, needle)

\* a write that leaves the terminator out
WriteBare(l) == l

\* stm_agps.py 105: f.write(line + b'\n')
WriteRecord(l) == l \o <<NL>>

\* the exchanges of the model: _serial_write_cmd as set_time (171) and reset
\* (116) call it, and _store_to_file as _store_almanac (150) and
\* _store_ephemeris (147) call it
DriverOps == {
    [kind |-> "cmd", wire |-> Render(STMINITTIME, TimeFields),
     expect |-> STMINITTIMEOK, cmd |-> <<>>, ack |-> <<>>],
    [kind |-> "cmd", wire |-> Render(STMGPSRESET, <<>>),
     expect |-> <<>>, cmd |-> <<>>, ack |-> <<>>],
    [kind |-> "store", wire |-> Render(STMDUMPALMANAC, <<>>),
     expect |-> PSTMALMANAC, cmd |-> STMDUMPALMANAC, ack |-> PSTMALMANAC],
    [kind |-> "store", wire |-> Render(STMDUMPEPHEMS, <<>>),
     expect |-> PSTMEPHEM, cmd |-> STMDUMPEPHEMS, ack |-> PSTMEPHEM] }

\* the lines the device answers with
DevLines(op) ==
    IF op.kind = "store"
    THEN { op.ack \o <<",", "1">> \o CRLF,          \* data
           op.ack \o <<",", "2">> \o CRLF,          \* data
           op.ack \o <<",">> \o op.cmd \o CRLF,     \* data that holds the command text
           op.wire \o CRLF,                         \* the command echoed: the sentinel
           LineGP }                                 \* an NMEA sentence in between
    ELSE { <<"$", "P">> \o STMINITTIMEOK \o <<"*", "X", "X">> \o CRLF,
           <<"$", "P">> \o STMINITTIME \o <<"E", "R", "R", "O", "R">> \o CRLF,
           op.wire \o CRLF,
           LineGP }

OldFile == [present |-> TRUE, lines |-> << <<"o", "l", "d", NL>> >>]

DriverInit ==
    /\ d_op \in DriverOps
    /\ d_pc = "start"
    /\ d_written = <<>>
    /\ d_reads = 0
    /\ d_line = <<>>
    /\ d_result = NoResult
    /\ d_file \in {NoFile, OldFile}
    /\ d_first_match = 0
    /\ d_lastraw = <<>>
    /\ d_shape = "data"
    /\ d_data = <<>>
    /\ DaemonIdle /\ FramerIdle /\ AgpsIdle

\* 70-71: the command text, then b'\r\n', are written
DrvWrite ==
    /\ d_pc = "start"
    /\ d_written' = <<d_op.wire, CRLF>>
    /\ d_pc' = "poll"
    /\ UNCHANGED <<d_op, d_reads, d_line, d_result, d_file, d_first_match, d_lastraw,
                   d_shape, d_data, dvars, fvars, avars>>

\* what the device has sent since the command, as the dump sees it: only data
\* lines so far ("data"), data lines and then the echoed command ("complete"),
\* or anything else ("other")
ShapeNext(l) ==
    IF d_shape = "data" /\ StartsWith(l, d_op.ack) THEN "data"
    ELSE IF d_shape = "data" /\ Contains(l, d_op.cmd) THEN "complete"
    ELSE "other"

Observe(l) ==
    IF d_op.kind = "store"
    THEN /\ d_shape' = ShapeNext(l)
         /\ d_data' = IF d_shape = "data" /\ StartsWith(l, d_op.ack)
                      THEN Append(d_data, l) ELSE d_data
    ELSE UNCHANGED <<d_shape, d_data>>

\* the device sends at most MaxData lines that start with the dump's prefix
MayEmit(l) ==
    (d_op.kind = "store" /\ StartsWith(l, d_op.ack)) =>
        /\ Len(d_data) < MaxData
        /\ d_pc = "collect" =>
               Len(d_file.lines) + (IF StartsWith(d_line, d_op.ack) THEN 1 ELSE 0) < MaxData

\* 73-92: one pass of the polling loop of _serial_write_cmd: readline, strip,
\* test; and, when it ends the exchange inside _store_to_file, 97-102: raise
\* on failure, else open the file and test the line for the command text
DrvPoll ==
    /\ d_pc = "poll"
    /\ \E l \in DevLines(d_op) :
          LET nl == StripLast(l)
              n == d_reads + 1
              needle == IF d_op.expect # <<>> THEN d_op.expect ELSE d_op.wire
              ok == CmdMatch(nl, needle)
              ended == ok \/ n = polling_loops
          IN /\ MayEmit(l)
             /\ d_reads' = n
             /\ d_line' = nl
             /\ d_lastraw' = l
             /\ d_first_match' = IF d_first_match = 0 /\ Contains(l, needle)
                                 THEN n ELSE d_first_match
             /\ d_result' = IF ended THEN [done |-> TRUE, ok |-> ok, line |-> nl]
                            ELSE d_result
             /\ d_pc' = IF ~ended THEN "poll"
                        ELSE IF d_op.kind = "cmd" THEN "returned"
                        ELSE IF ~ok THEN "raised"
                        ELSE IF Contains(nl, d_op.cmd) THEN "returned"
                        ELSE "collect"
             /\ d_file' = IF ended /\ ok /\ d_op.kind = "store"
                          THEN [present |-> TRUE, lines |-> <<>>] ELSE d_file
             /\ Observe(l)
    /\ UNCHANGED <<d_op, d_written, dvars, fvars, avars>>

\* 100-107: one pass of the collection loop: the line in hand does not hold the
\* command text; it is written if it starts with the prefix; the next line is
\* read, stripped, and ends the dump if it holds the command text
DrvCollect ==
    /\ d_pc = "collect"
    /\ \E l \in DevLines(d_op) :
          LET nl == StripLast(l) IN
          /\ MayEmit(l)
          /\ d_file' = IF StartsWith(d_line, d_op.ack)
                       THEN [d_file EXCEPT !.lines = Append(@, WriteRecord(d_line))]
                       ELSE d_file
          /\ d_line' = nl
          /\ d_pc' = IF Contains(nl, d_op.cmd) THEN "returned" ELSE "collect"
          /\ Observe(l)
    /\ UNCHANGED <<d_op, d_written, d_reads, d_result, d_first_match, d_lastraw,
                   dvars, fvars, avars>>

DriverNext == DrvWrite \/ DrvPoll \/ DrvCollect

SpecDriver == DriverInit /\ [][DriverNext]_vars

----------------------------------------------------------------------------
(* Claims about the command exchange and the dump (SpecDriver) *)

\* C6: with an expected substring, _serial_write_cmd reads line after line;
\* it returns success at the first line that contains the substring, with
\* that line, and reads no line after it; it returns failure, with the last
\* line read, after exactly polling_loops lines none of which contains it.
C6_AckPolling ==
    d_op.expect # <<>> =>
        /\ d_written # <<>> \/ d_reads = 0
        /\ d_reads <= polling_loops
        /\ d_first_match # 0 => d_reads = d_first_match /\ d_result.done /\ d_result.ok
        /\ d_result.done =>
               /\ d_result.line \o <<NL>> = d_lastraw
               /\ d_result.ok => d_first_match = d_reads /\ Contains(d_result.line, d_op.expect)
               /\ ~d_result.ok => d_first_match = 0 /\ d_reads = polling_loops
        /\ (~d_result.done /\ d_pc = "poll") => d_first_match = 0 /\ d_reads < polling_loops

\* the ack of the time command was found in the third line, inside the line
C6_Witness ==
    /\ d_op.expect = STMINITTIMEOK
    /\ d_result.done /\ d_result.ok /\ d_reads = 3
    /\ ~StartsWith(d_result.line, d_op.expect)

\* C7 as stated: once the device has sent N >= 0 lines that start with the
\* prefix and then a line holding the command text, the dump has returned and
\* the file holds exactly those N lines; and it does not return before, while
\* only such lines have been sent.
C7_DumpAnyN ==
    d_op.kind = "store" =>
        /\ d_shape = "complete" =>
               d_pc = "returned" /\ d_file = [present |-> TRUE, lines |-> d_data]
        /\ d_shape = "data" => d_pc # "returned"

DataHoldsCommand == \E i \in 1..Len(d_data) : Contains(d_data[i], d_op.cmd)

\* C7 amended: the same for N >= 1 and data lines none of which holds the
\* command text. (With N = 0 the echoed command is consumed while the dump
\* still polls for its first data line; a data line that holds the command
\* text ends the dump.)
C7_DumpSomeData ==
    (d_op.kind = "store" /\ ~DataHoldsCommand) =>
        /\ (d_shape = "complete" /\ Len(d_data) >= 1) =>
               d_pc = "returned" /\ d_file = [present |-> TRUE, lines |-> d_data]
        /\ d_shape = "data" => d_pc # "returned"

\* two data lines and the echoed command were sent, and the dump returned
C7_Witness ==
    /\ d_op.kind = "store" /\ d_shape = "complete" /\ d_pc = "returned"
    /\ Len(d_data) = 2 /\ d_data[1] # d_data[2]
    /\ \A i \in 1..Len(d_data) : ~Contains(d_data[i], d_op.cmd)
    /\ d_file.lines = d_data

----------------------------------------------------------------------------
(* STM_AGPS.load and STM_AGPS.store (stm_agps.py 109-174): the sequence of  *)
(* exchanges of one call. An exchange is _serial_write_cmd, which           *)
(* SpecDriver follows read by read; here it is its write and its result.    *)

Whitespace == {" ", "\t", "\r", NL}

RECURSIVE StripLeft(_)
StripLeft(b) ==
    IF b # <<>> /\ Head(b) \in Whitespace THEN StripLeft(Tail(b)) ELSE b

RECURSIVE StripRight(_)
StripRight(b) ==
    IF b # <<>> /\ b[Len(b)] \in Whitespace THEN StripRight(Take(b, Len(b) - 1)) ELSE b

\* bytes.strip()
Strip(b) == StripRight(StripLeft(b))

\* str(cmd).encode("ascii") for cmd a bytes object of printable characters
\* without quote or backslash: Python's repr of it, b'...'
StrOfBytes(b) == <<"b", "'">> \o b \o <<"'">>

Digits == <<"1", "2", "3", "4", "5">>

\* the i-th data line of a dump as the device sends it, and as
\* _store_to_file leaves it in the file (107, 105)
DataLine(ack, i) == ack \o <<",", Digits[i]>> \o CRLF
StoredLine(ack, i) == WriteRecord(StripLast(DataLine(ack, i)))

\* the lines of a file load() is given: as store() wrote them, or with other
\* surrounding whitespace
FileLine(ack, i) ==
    IF i % 2 = 1 THEN StoredLine(ack, i)
    ELSE <<" ">> \o ack \o <<",", Digits[i], NL>>

FileOf(ack, n) == [present |-> TRUE, lines |-> [i \in 1..n |-> FileLine(ack, i)]]
Files(ack) == {NoFile} \cup {FileOf(ack, n) : n \in 0..MaxData}

\* a test that looks for almanac.txt only
OnlyAlmanacChecked == a_dir.almanac.present

\* stm_agps.py 133-137: both files exist
FilesPresent == a_dir.almanac.present /\ a_dir.ephemeris.present

\* a loop that stops at the first line whose ack was not found
StopOnFailedLine(ok) == ok

\* stm_agps.py 112: the result of the exchange is dropped
ResultIgnored(ok) == TRUE

\* a set_time that never raises
SetTimeTolerant(ok) == FALSE

\* stm_agps.py 172-173: if not ret: raise
SetTimeFatal(ok) == ~ok

\* a dump that opens its file before it looks at the result
FileOpenedFirst(ok, file) == [present |-> TRUE, lines |-> <<>>]

\* stm_agps.py 97-99: raise if not result, else open(file, 'wb')
FileAfterAck(ok, file) == IF ok THEN [present |-> TRUE, lines |-> <<>>] ELSE file

\* stm_agps.py 16-23 and the call of load(dir) or store(dir)
AgpsInit ==
    /\ a_call \in {"load", "store"}
    /\ a_pc = "start"
    /\ a_phase = "none"
    /\ a_idx = 0
    /\ a_dir \in (IF a_call = "load"
                  THEN [almanac : Files(PSTMALMANAC), ephemeris : Files(PSTMEPHEM)]
                  ELSE [almanac : {NoFile, OldFile}, ephemeris : {NoFile, OldFile}])
    /\ a_before = a_dir
    /\ a_sent = <<>>
    /\ a_acks = <<>>
    /\ DaemonIdle /\ FramerIdle /\ DriverIdle

\* 130-140, 120-124: load() returns if a file is missing; else, and in store(),
\* the first thing is reset()
AgpsCall ==
    /\ a_pc = "start"
    /\ IF a_call = "load" /\ ~FilesPresent
       THEN a_pc' = "returned" /\ a_phase' = "none"
       ELSE a_pc' = "reset" /\ a_phase' = "write"
    /\ UNCHANGED <<a_call, a_idx, a_dir, a_before, a_sent, a_acks, dvars, fvars, pvars>>

\* the text of the command of the step: str(msg) of a sentence (115, 163, 95),
\* str(line.strip()) of a line of the file (112)
AgpsCommand ==
    CASE a_pc \in {"reset", "settime_reset"} -> Render(STMGPSRESET, <<>>)
      [] a_pc = "settime" -> Render(STMINITTIME, TimeFields)
      [] a_pc \in {"almanac", "ephemeris"} ->
             StrOfBytes(Strip(a_dir[a_pc].lines[a_idx + 1]))
      [] a_pc = "dump_almanac" -> Render(STMDUMPALMANAC, <<>>)
      [] a_pc = "dump_ephemeris" -> Render(STMDUMPEPHEMS, <<>>)

\* 70-71: the command and b'\r\n' are written
AgpsWrite ==
    /\ a_phase = "write"
    /\ a_sent' = Append(a_sent, AgpsCommand \o CRLF)
    /\ a_phase' = "poll"
    /\ UNCHANGED <<a_call, a_pc, a_idx, a_dir, a_before, a_acks, dvars, fvars, pvars>>

Go(pc, idx) ==
    [pc |-> pc, phase |-> IF pc \in {"returned", "raised"} THEN "none" ELSE "write",
     idx |-> idx, dir |-> a_dir]

\* 143-144, 110-111: the next file that has a line to issue, from `step` on
LoadFrom(step) ==
    IF step = "almanac" /\ Len(a_dir.almanac.lines) > 0 THEN "almanac"
    ELSE IF Len(a_dir.ephemeris.lines) > 0 THEN "ephemeris"
    ELSE "returned"

DumpTarget == IF a_pc = "dump_almanac" THEN "almanac" ELSE "ephemeris"

\* what the caller of the exchange does with its result
ResultNext(ok) ==
    CASE a_pc = "reset" ->                          \* 116-117, then 141 or 126
             Go(IF a_call = "load" THEN "settime_reset" ELSE "dump_almanac", 0)
      [] a_pc = "settime_reset" -> Go("settime", 0) \* 159-171
      [] a_pc = "settime" ->                        \* 171-174, 143
             IF SetTimeFatal(ok) THEN Go("raised", 0) ELSE Go(LoadFrom("almanac"), 0)
      [] a_pc \in {"almanac", "ephemeris"} ->       \* 111-112, 144
             IF ~ResultIgnored(ok) THEN Go("raised", a_idx)
             ELSE IF a_idx + 1 < Len(a_dir[a_pc].lines) THEN Go(a_pc, a_idx + 1)
             ELSE IF a_pc = "almanac" THEN Go(LoadFrom("ephemeris"), 0)
             ELSE Go("returned", 0)
      [] a_pc \in {"dump_almanac", "dump_ephemeris"} ->   \* 96-99
             [pc |-> IF ok THEN a_pc ELSE "raised",
              phase |-> IF ok THEN "collect" ELSE "none",
              idx |-> 0,
              dir |-> [a_dir EXCEPT ![DumpTarget] = FileAfterAck(ok, @)]]

\* 72-92: the exchange ends, its ack found within the poll budget or not
AgpsResult(ok) ==
    /\ a_phase = "poll"
    /\ a_acks' = Append(a_acks, ok)
    /\ LET n == ResultNext(ok) IN
       /\ a_pc' = n.pc
       /\ a_phase' = n.phase
       /\ a_idx' = n.idx
       /\ a_dir' = n.dir
    /\ UNCHANGED <<a_call, a_before, a_sent, dvars, fvars, pvars>>

\* 100-107: the data lines are written until the command comes back; then
\* 127: the ephemeris dump, or the end of store()
AgpsCollect ==
    /\ a_phase = "collect"
    /\ \E n \in 0..MaxData :
          a_dir' = [a_dir EXCEPT ![DumpTarget].lines =
                       [i \in 1..n |-> StoredLine(IF a_pc = "dump_almanac"
                                                  THEN PSTMALMANAC ELSE PSTMEPHEM, i)]]
    /\ a_pc' = IF a_pc = "dump_almanac" THEN "dump_ephemeris" ELSE "returned"
    /\ a_phase' = IF a_pc = "dump_almanac" THEN "write" ELSE "none"
    /\ UNCHANGED <<a_call, a_idx, a_before, a_sent, a_acks, dvars, fvars, pvars>>

AgpsNext ==
    \/ AgpsCall
    \/ AgpsWrite
    \/ \E ok \in BOOLEAN : AgpsResult(ok)
    \/ AgpsCollect

SpecAgps == AgpsInit /\ [][AgpsNext]_vars

----------------------------------------------------------------------------
(* Claims about load() and store() (SpecAgps) *)

ResetWire == Render(STMGPSRESET, <<>>) \o CRLF

\* what load() writes before the first line of a file: reset, reset, the time
Preamble == <<ResetWire, ResetWire, Render(STMINITTIME, TimeFields) \o CRLF>>

\* the lines of the two files, almanac.txt first
LoadLines == a_before.almanac.lines \o a_before.ephemeris.lines

\* C13: when almanac.txt or ephemeris.txt is missing, load() writes nothing to
\* the device, makes no exchange, and returns; the files are left as they are.
C13_MissingFileNoWrite ==
    (a_call = "load" /\ (~a_before.almanac.present \/ ~a_before.ephemeris.present)) =>
        /\ a_sent = <<>> /\ a_acks = <<>>
        /\ a_pc \in {"start", "returned"}
        /\ a_dir = a_before

\* load() has returned with almanac.txt holding lines and ephemeris.txt missing
C13_Witness ==
    /\ a_call = "load" /\ a_pc = "returned"
    /\ a_before.almanac.present /\ Len(a_before.almanac.lines) > 0
    /\ ~a_before.ephemeris.present
    /\ a_sent = <<>>

\* C16: what load() writes for a line of a file is that line with its
\* surrounding whitespace trimmed, followed by \r\n.
C16_LoadWritesTrimmedLines ==
    a_call = "load" =>
        \A i \in 1..Len(a_sent) :
            (i > Len(Preamble) /\ i - Len(Preamble) <= Len(LoadLines)) =>
                a_sent[i] = Strip(LoadLines[i - Len(Preamble)]) \o CRLF

\* a line of a file as _load_from_file hands it to the exchange
AsIssued(l) == StrOfBytes(Strip(l)) \o CRLF

C17_Expected == Preamble \o [i \in 1..Len(LoadLines) |-> AsIssued(LoadLines[i])]

\* C17: after reset, reset and the time command, load() issues the lines of
\* almanac.txt and then those of ephemeris.txt, each once and in file order,
\* whatever the results of their exchanges; it returns when all are issued and
\* raises only when the time command's ack was not found.
C17_EveryLineOnceInOrder ==
    (a_call = "load" /\ a_before.almanac.present /\ a_before.ephemeris.present) =>
        /\ IsPrefix(a_sent, C17_Expected)
        /\ a_pc = "returned" =>
               a_sent = C17_Expected /\ Len(a_acks) = Len(a_sent)
        /\ a_pc = "raised" => Len(a_acks) = Len(Preamble) /\ ~a_acks[Len(Preamble)]
        /\ a_dir = a_before

\* load() has returned although the ack of an almanac line and that of an
\* ephemeris line were not found
C17_Witness ==
    /\ a_call = "load" /\ a_pc = "returned"
    /\ Len(a_before.almanac.lines) = 2 /\ Len(a_before.ephemeris.lines) = 2
    /\ ~a_acks[Len(Preamble) + 1] /\ a_acks[Len(Preamble) + 2]
    /\ ~a_acks[Len(Preamble) + 3]

AlmanacDumpWire == Render(STMDUMPALMANAC, <<>>) \o CRLF
EphemerisDumpWire == Render(STMDUMPEPHEMS, <<>>) \o CRLF

\* C18: in store(), after reset, a dump whose start-of-transfer ack is not
\* found raises and leaves its file as it was; when it is the almanac dump,
\* the ephemeris dump command is never written and ephemeris.txt is as it was.
C18_FailedDumpLeavesFile ==
    a_call = "store" =>
        /\ (Len(a_acks) >= 2 /\ ~a_acks[2]) =>
               /\ a_pc = "raised"
               /\ a_dir = a_before
               /\ a_sent = <<ResetWire, AlmanacDumpWire>>
        /\ (Len(a_acks) >= 3 /\ ~a_acks[3]) =>
               /\ a_pc = "raised"
               /\ a_dir.ephemeris = a_before.ephemeris
        /\ a_pc = "raised" => Len(a_acks) >= 2 /\ ~a_acks[Len(a_acks)]
        /\ \A i \in 1..Len(a_sent) :
               a_sent[i] = EphemerisDumpWire => i = 3 /\ a_acks[2]

\* the almanac dump failed over an existing almanac.txt
C18_Witness ==
    /\ a_call = "store" /\ a_pc = "raised"
    /\ Len(a_acks) = 2 /\ ~a_acks[2]
    /\ a_before.almanac = OldFile /\ a_dir.almanac = OldFile

\* C19: when the ack of the time command is not found, load() raises; it has
\* written reset, reset and the time command and nothing else, no line of a
\* file; the files are as they were; and load() raises for no other result.
C19_SetTimeFailureAbortsLoad ==
    a_call = "load" =>
        /\ (Len(a_acks) >= Len(Preamble) /\ ~a_acks[Len(Preamble)]) =>
               /\ a_pc = "raised" /\ a_phase = "none"
               /\ a_sent = Preamble
               /\ a_dir = a_before
        /\ (Len(a_acks) >= Len(Preamble) /\ a_acks[Len(Preamble)]) => a_pc # "raised"
        /\ Len(a_acks) < Len(Preamble) => a_pc # "raised"

\* the time command failed after two resets whose echo was seen, with lines
\* waiting in both files
C19_Witness ==
    /\ a_call = "load" /\ a_pc = "raised"
    /\ a_acks = <<TRUE, TRUE, FALSE>>
    /\ Len(a_before.almanac.lines) > 0 /\ Len(a_before.ephemeris.lines) > 0

====
